---- MODULE Spec2Model ----
(***************************************************************************)
(* Model of jafarjalilov/website-monitor.                                  *)
(*                                                                         *)
(*   src/website_monitor.py  WebsiteChangeMonitor: fetch -> hash ->        *)
(*                           compare with the previous hash -> save and    *)
(*                           notify.                                       *)
(*   src/app.py              monitor_website: the background loop that     *)
(*                           drives check_for_changes and keeps the shared *)
(*                           monitor_status; api_status reads it.          *)
(*                                                                         *)
(* The monitor thread is modelled statement by statement (pc), so that the *)
(* order of the save, the assignment of previous_hash, the notification    *)
(* and the status updates is the order of the source.  The environment     *)
(* (the web site, the file system, the SMTP server, a process restart) is  *)
(* a nondeterministic choice in the step that touches it.                  *)
(*                                                                         *)
(*   Spec               the program: start_monitor_thread is called once,  *)
(*                      when the module is loaded.                         *)
(*   FairSpec           Spec with the monitor thread scheduled.            *)
(*   ReliableStoreSpec  Spec on a file system where every write of the     *)
(*                      record succeeds and nothing else touches it.       *)
(*   ConcurrentSpec     Spec with a second caller of start_monitor_thread. *)
(***************************************************************************)
EXTENDS Integers, Sequences, FiniteSets

(* ------------------------------ bounds -------------------------------- *)

\* Page contents are the strings of at most MaxLen characters.
MaxLen == 2
\* The wall clock stops advancing at MaxTime; from then on the site is down
\* (fetches fail), so counters stay bounded while the loop keeps running.
MaxTime == 3
\* Number of process restarts in a behaviour.
MaxRestarts == 1

(* -------------------------- program constants ------------------------- *)

\* CHECK_INTERVAL default, seconds.
DefaultInterval == 3600
\* time.sleep(60) of the loop's exception handler.
FallbackDelay == 60

(* ------------------------------ values -------------------------------- *)

\* Python None in an integer-typed slot (hash, time, interval).
None == -1
\* Python None in a string-typed slot (URL).
NoneStr == "None"
\* Python None returned by _get_page_content (no character is -1).
NoContent == <<None>>

\* The model's pages are written in a one-letter alphabet: they differ in
\* their length only.
Chars == {1}

RECURSIVE StringsUpTo(_)
StringsUpTo(n) ==
    IF n = 0 THEN {<<>>}
    ELSE LET shorter == StringsUpTo(n - 1)
         IN  shorter \cup {Append(s, c) : s \in {t \in shorter : Len(t) = n - 1}, c \in Chars}

\* Every text a successful HTTP response can carry (the empty body included).
Contents == StringsUpTo(MaxLen)

\* hashlib.sha256(...).hexdigest(): a fixed function from contents to
\* digests, injective on the model's contents (no collisions), and never the
\* content itself.  Digests are the integers >= 1.
RECURSIVE sha256(_)
sha256(s) ==
    IF s = <<>> THEN 1
    ELSE sha256(SubSeq(s, 1, Len(s) - 1)) * (Cardinality(Chars) + 1) + s[Len(s)]

Digests == {sha256(c) : c \in Contents}

\* Faulty variant: only the empty string is taken for "no content".
Truthy_EmptyOnly(content) == content # <<>>

\* Python truthiness of a fetched content: None and "" are falsy.
Truthy(content) == content # NoContent /\ content # <<>>

\* Faulty variant: the hash does not depend on the page (the URL is hashed).
calculate_hash_OfUrl(content) ==
    IF Truthy(content) THEN sha256(<<1>>) ELSE None

\* WebsiteChangeMonitor._calculate_hash
calculate_hash(content) ==
    IF Truthy(content) THEN sha256(content) ELSE None

(* ------------------------- the persisted record ----------------------- *)

\* The hash file is absent, unreadable, or holds a record whose 'hash' is a
\* digest (the url and timestamp fields are written and never read).
Absent == -2
Corrupt == -3
FileStates == {Absent, Corrupt} \cup Digests

\* Faulty variant: the saved hash is never taken over.
get_saved_hash_Forget(f) == None

\* Faulty variant: an unreadable record is not caught as an error, what is
\* left of it is taken for the saved hash.
get_saved_hash_Garbage(f) ==
    IF f = Absent THEN None
    ELSE IF f = Corrupt THEN sha256(<<1>>)
    ELSE f

\* WebsiteChangeMonitor._get_saved_hash: the record's hash, None when the
\* file does not exist or reading it raises.
get_saved_hash(f) ==
    IF f = Absent THEN None
    ELSE IF f = Corrupt THEN None
    ELSE f

\* What can happen inside _save_hash: the record is written; open(..., 'w')
\* raises and the file is untouched; or the file is truncated by open and
\* json.dump raises.  Either exception is caught and logged.
SaveResults == {"written", "open_failed", "dump_failed"}

\* Faulty variant: the record is written to another path, the hash file
\* keeps what it held.
save_hash_Elsewhere(f, hash_value, how) ==
    IF how = "dump_failed" THEN Corrupt ELSE f

\* WebsiteChangeMonitor._save_hash: the state the file is left in.
save_hash(f, hash_value, how) ==
    IF how = "written" THEN hash_value
    ELSE IF how = "open_failed" THEN f
    ELSE Corrupt

(* ------------------------------ state --------------------------------- *)

VARIABLES
    env_url,          \* os.environ WEBSITE_URL: NoneStr (unset), "" or the URL
    env_email,        \* EMAIL_SENDER, EMAIL_RECIPIENT and SMTP_SERVER are all set
    env_creds,        \* EMAIL_USERNAME and EMAIL_PASSWORD are set
    file,             \* the hash file /tmp/website_hash_<md5(url)>.json
    now,              \* the wall clock
    restarts,         \* process restarts so far
    pc,               \* the monitor thread's position
    previous_hash,    \* monitor.previous_hash
    email_config,     \* monitor.email_config is not None
    content,          \* check_for_changes: content
    current_hash,     \* check_for_changes: current_hash
    result,           \* monitor_website: result
    monitor_status,   \* the global monitor_status dict
    delay,            \* the argument of the last time.sleep
    attempts,         \* SMTP deliveries attempted by this process
    chk,              \* what the check in progress (or the last one) did
    boot_file,        \* the hash file as __init__ found it
    monitor_thread,   \* the global monitor_thread: None or a started thread
    starter,          \* where each caller of start_monitor_thread is in it
    pc2               \* the position of a second monitor_website thread

envVars == <<env_url, env_email, env_creds>>
startVars == <<monitor_thread, starter, pc2>>
monVars == <<pc, previous_hash, email_config, content, current_hash, result>>
vars == <<env_url, env_email, env_creds, file, now, restarts, pc, previous_hash,
          email_config, content, current_hash, result, monitor_status,
          delay, attempts, chk, boot_file, monitor_thread, starter, pc2>>

URL == "https://example.com"

\* app.py: the module-level monitor_status.
InitialStatus ==
    [is_running |-> FALSE, last_check_time |-> None, target_url |-> NoneStr,
     check_interval |-> None, changes_detected |-> 0]

\* The record of one check: the state it started from and what it did.
NewCheck ==
    [first |-> chk.t0 = None,                      \* the first check of this process
     prev0 |-> previous_hash,                      \* previous_hash at its start
     cd0 |-> monitor_status.changes_detected,      \* changes_detected at its start
     t0 |-> now,                                   \* the time of the iteration
     c0 |-> content,                               \* what the check before it fetched
     c00 |-> chk.c0,                               \* and the one before that
     fails |-> 0,                                  \* failed fetches in a row, this one included
                                                   \* (counted up to MaxTime)
     saves |-> <<>>,                               \* the arguments of its _save_hash calls
     save_ok |-> <<>>,                             \* whether each call wrote the record
     wrote |-> <<>>,                               \* the file right after each call
     sent |-> 0,                                   \* SMTP deliveries attempted
     delivered |-> FALSE,                          \* the last attempt succeeded
     login |-> FALSE,                              \* the delivery calls server.login
                                                   \* once it is connected
     raised |-> FALSE]                             \* it ended in an exception

\* Before the first check of a process.
NoCheck ==
    [first |-> FALSE, prev0 |-> None, cd0 |-> 0, t0 |-> None, c0 |-> NoContent,
     c00 |-> NoContent,
     fails |-> 0, saves |-> <<>>, save_ok |-> <<>>, wrote |-> <<>>, sent |-> 0,
     delivered |-> FALSE, login |-> FALSE, raised |-> FALSE]

\* The callers of start_monitor_thread: the module itself when it is loaded
\* (the `__main__` branch or the import by a WSGI server), and one more
\* thread of the process that calls the function.
Callers == {"load", "call"}

\* The Thread objects start_monitor_thread can create: the first one started
\* is followed statement by statement (pc), a second one by pc2.
Threads == {"t1", "t2"}

\* The state when the module has been loaded, for every environment it can
\* be given.  EMAIL_USERNAME and EMAIL_PASSWORD are read only while the
\* email configuration is built (app.py:181-190), so they are varied only
\* where it is.
Init ==
    /\ env_url \in {NoneStr, "", URL}
    /\ env_email \in BOOLEAN
    /\ env_creds \in (IF env_email THEN BOOLEAN ELSE {FALSE})
    /\ file = Absent
    /\ now = 0
    /\ restarts = 0
    /\ pc = "start"
    /\ previous_hash = None
    /\ email_config = FALSE
    /\ content = NoContent
    /\ current_hash = None
    /\ result = FALSE
    /\ monitor_status = InitialStatus
    /\ delay = None
    /\ attempts = 0
    /\ chk = NoCheck
    /\ boot_file = Absent
    /\ monitor_thread = NoneStr
    /\ starter = [c \in Callers |-> "call"]
    /\ pc2 = "none"

(* ------------------------ starting the thread ------------------------- *)

\* Thread.is_alive(): started and its target has not returned.
is_alive(t) ==
    IF t = "t1" THEN pc \notin {"start", "halted"}
    ELSE IF t = "t2" THEN pc2 \notin {"none", "halted"}
    ELSE FALSE

\* start_monitor_thread, the test
\* `if monitor_thread is None or not monitor_thread.is_alive()`; the else
\* branch only logs.  Nothing keeps another caller from running the test
\* before this one has assigned monitor_thread.
start_monitor_thread_if(c) ==
    /\ starter[c] = "call"
    /\ starter' = [starter EXCEPT
                     ![c] = IF monitor_thread = NoneStr \/ ~is_alive(monitor_thread)
                            THEN "then" ELSE "done"]
    /\ UNCHANGED <<envVars, file, now, restarts, monVars, monitor_status, delay,
                   attempts, chk, boot_file, monitor_thread, pc2>>

\* start_monitor_thread, the body of the `if`:
\* monitor_thread = Thread(target=monitor_website); daemon; start().
start_monitor_thread_then(c) ==
    /\ starter[c] = "then"
    /\ starter' = [starter EXCEPT ![c] = "done"]
    /\ IF pc = "start"
       THEN /\ pc' = "cfg"
            /\ monitor_thread' = "t1"
            /\ UNCHANGED pc2
       ELSE /\ pc2 = "none"
            /\ pc2' = "cfg"
            /\ monitor_thread' = "t2"
            /\ UNCHANGED pc
    /\ UNCHANGED <<envVars, file, now, restarts, previous_hash, email_config,
                   content, current_hash, result, monitor_status, delay,
                   attempts, chk, boot_file>>

\* app.py start_monitor_thread, as called by c.
start_monitor_thread(c) ==
    \/ start_monitor_thread_if(c)
    \/ start_monitor_thread_then(c)

(* -------------------------- the monitor thread ------------------------ *)

\* Faulty variant: `if url_to_monitor is None`, an empty WEBSITE_URL is monitored.
UrlMissing_NoneOnly(url) == url = NoneStr

\* `if not url_to_monitor`: an unset and an empty WEBSITE_URL are both falsy.
UrlMissing(url) == url = NoneStr \/ url = ""

\* monitor_website up to the construction of the monitor: without a URL it
\* logs and returns; otherwise WebsiteChangeMonitor.__init__ loads the
\* saved hash and keeps the email configuration.
monitor_website_configure ==
    /\ pc = "cfg"
    /\ IF UrlMissing(env_url)
       THEN /\ pc' = "halted"
            /\ UNCHANGED <<previous_hash, email_config, boot_file>>
       ELSE /\ previous_hash' = get_saved_hash(file)
            /\ boot_file' = file
            /\ email_config' = env_email
            /\ pc' = "set_running"
    /\ UNCHANGED <<envVars, startVars, file, now, restarts, content, current_hash, result,
                   monitor_status, delay, attempts, chk>>

\* monitor_status["is_running"] = True
set_is_running ==
    /\ pc = "set_running"
    /\ monitor_status' = [monitor_status EXCEPT !.is_running = TRUE]
    /\ pc' = "set_url"
    /\ UNCHANGED <<envVars, startVars, file, now, restarts, previous_hash, email_config,
                   content, current_hash, result, delay, attempts, chk, boot_file>>

\* monitor_status["target_url"] = url_to_monitor
set_target_url ==
    /\ pc = "set_url"
    /\ monitor_status' = [monitor_status EXCEPT !.target_url = env_url]
    /\ pc' = "set_interval"
    /\ UNCHANGED <<envVars, startVars, file, now, restarts, previous_hash, email_config,
                   content, current_hash, result, delay, attempts, chk, boot_file>>

\* monitor_status["check_interval"] = check_interval
set_check_interval ==
    /\ pc = "set_interval"
    /\ monitor_status' = [monitor_status EXCEPT !.check_interval = DefaultInterval]
    /\ pc' = "loop"
    /\ UNCHANGED <<envVars, startVars, file, now, restarts, previous_hash, email_config,
                   content, current_hash, result, delay, attempts, chk, boot_file>>

\* What requests.get can hand back at time t: None (a RequestException was
\* caught) or the text of a 2xx response.
FetchOutcomes(t) ==
    IF t < MaxTime THEN Contents \cup {NoContent} ELSE {NoContent}

\* Faulty variant: no first-run case, a missing previous hash counts as a change.
Branch_NoFirstRun(prev, cur) ==
    IF cur # prev THEN "chg_save" ELSE "ret"

\* Faulty variant: the comparison is lost, every later check is a change.
Branch_AlwaysChanged(prev, cur) ==
    IF prev = None THEN "first_save" ELSE "chg_save"

\* check_for_changes after the hash is computed: where it goes next.
\* `not self.previous_hash` is the first run; a different hash is a change.
Branch(prev, cur) ==
    IF prev = None THEN "first_save"
    ELSE IF cur # prev THEN "chg_save"
    ELSE "ret"

\* check_for_changes from its call to the first side effect: the fetch, the
\* `if not content` early return, the hash and the comparison.
check_fetch ==
    /\ pc = "loop"
    /\ \E r \in FetchOutcomes(now) :
         /\ content' = r
         /\ chk' = [NewCheck EXCEPT
                      !.fails = IF r # NoContent THEN 0
                                ELSE IF chk.fails < MaxTime THEN chk.fails + 1
                                ELSE chk.fails]
         /\ IF ~Truthy(r)
            THEN /\ pc' = "ret"
                 /\ result' = FALSE
                 /\ UNCHANGED current_hash
            ELSE /\ current_hash' = calculate_hash(r)
                 /\ pc' = Branch(previous_hash, current_hash')
                 /\ result' = IF pc' = "ret" THEN FALSE ELSE result
    /\ UNCHANGED <<envVars, startVars, file, now, restarts, previous_hash, email_config,
                   monitor_status, delay, attempts, boot_file>>

\* An exception other than requests.RequestException leaves
\* check_for_changes and reaches the loop's `except Exception`.
check_raises ==
    /\ pc = "loop"
    /\ chk' = [NewCheck EXCEPT !.raised = TRUE]
    /\ pc' = "except"
    /\ UNCHANGED <<envVars, startVars, file, now, restarts, previous_hash, email_config,
                   content, current_hash, result, monitor_status, delay,
                   attempts, boot_file>>

\* self._save_hash(current_hash), on the first run and on a change.
SaveStep(from, to) ==
    /\ pc = from
    /\ \E how \in SaveResults :
         /\ file' = save_hash(file, current_hash, how)
         /\ chk' = [chk EXCEPT !.saves = Append(@, current_hash),
                               !.save_ok = Append(@, how = "written"),
                               !.wrote = Append(@, file')]
    /\ pc' = to
    /\ UNCHANGED <<envVars, startVars, now, restarts, previous_hash, email_config, content,
                   current_hash, result, monitor_status, delay, attempts, boot_file>>

first_run_save == SaveStep("first_save", "first_set")

\* First run: self.previous_hash = current_hash; return False
first_run_set ==
    /\ pc = "first_set"
    /\ previous_hash' = current_hash
    /\ result' = FALSE
    /\ pc' = "ret"
    /\ UNCHANGED <<envVars, startVars, file, now, restarts, email_config, content,
                   current_hash, monitor_status, delay, attempts, chk, boot_file>>

change_save == SaveStep("chg_save", "chg_set")

\* Change: self.previous_hash = current_hash
change_set ==
    /\ pc = "chg_set"
    /\ previous_hash' = current_hash
    /\ pc' = "chg_notify"
    /\ UNCHANGED <<envVars, startVars, file, now, restarts, email_config, content,
                   current_hash, result, monitor_status, delay, attempts, chk,
                   boot_file>>

\* Faulty variant: the notification call is lost.
Notifies_Never(cfg) == FALSE

\* Faulty variant: the notification is sent whether or not email is configured.
Notifies_Always(cfg) == TRUE

\* Whether check_for_changes calls _send_email_notification, which then
\* opens the SMTP connection: `if self.email_config`.
Notifies(cfg) == cfg

\* Faulty variant: a delivery error is not caught and reaches the loop's handler.
AfterDelivery_Propagates(ok) == IF ok THEN "ret" ELSE "except"

\* Where check_for_changes goes after a delivery that succeeded (ok) or
\* raised: _send_email_notification catches every Exception, so in both
\* cases it returns and check_for_changes reaches `return True`.
AfterDelivery(ok) == "ret"

\* Whether _send_email_notification calls server.login:
\* `if 'username' in config and 'password' in config`.  The dict
\* monitor_website builds has both keys whether or not EMAIL_USERNAME and
\* EMAIL_PASSWORD are set (os.environ.get gives None for an unset one), so
\* the test does not depend on creds, the credentials being configured.
LogsIn(creds) == TRUE

\* Change: the notification (connect, starttls, login, send_message, quit:
\* any of them may raise); return True
change_notify ==
    /\ pc = "chg_notify"
    /\ IF Notifies(email_config)
       THEN \E ok \in BOOLEAN :
              /\ attempts' = attempts + 1
              /\ chk' = [chk EXCEPT !.sent = @ + 1, !.delivered = ok,
                                    !.login = LogsIn(env_creds)]
              /\ pc' = AfterDelivery(ok)
       ELSE /\ pc' = "ret"
            /\ UNCHANGED <<attempts, chk>>
    /\ result' = (pc' = "ret")
    /\ UNCHANGED <<envVars, startVars, file, now, restarts, previous_hash, email_config,
                   content, current_hash, monitor_status, delay, boot_file>>

\* app.py update_monitor_status(): last_check_time = datetime.now(utc);
\* url and interval are None, so nothing else is written.
update_monitor_status ==
    /\ pc = "ret"
    /\ monitor_status' = [monitor_status EXCEPT !.last_check_time = now]
    /\ pc' = "count"
    /\ UNCHANGED <<envVars, startVars, file, now, restarts, previous_hash, email_config,
                   content, current_hash, result, delay, attempts, chk, boot_file>>

\* Faulty variant: every check is counted.
Counted_Always(res, n) == n + 1

\* Faulty variant: the counter update is lost.
Counted_Never(res, n) == n

\* `if result: monitor_status["changes_detected"] += 1`
Counted(res, n) == IF res THEN n + 1 ELSE n

count_change ==
    /\ pc = "count"
    /\ monitor_status' =
         [monitor_status EXCEPT !.changes_detected = Counted(result, @)]
    /\ pc' = "sleep"
    /\ UNCHANGED <<envVars, startVars, file, now, restarts, previous_hash, email_config,
                   content, current_hash, result, delay, attempts, chk, boot_file>>

\* time.sleep(d): the clock moves on.
Tick(t) == IF t < MaxTime THEN t + 1 ELSE t

\* time.sleep(check_interval), then the next iteration.
sleep_interval ==
    /\ pc = "sleep"
    /\ delay' = DefaultInterval
    /\ now' = Tick(now)
    /\ pc' = "loop"
    /\ UNCHANGED <<envVars, startVars, file, restarts, previous_hash, email_config, content,
                   current_hash, result, monitor_status, attempts, chk, boot_file>>

\* Faulty variant: the handler ends the thread.
AfterExcept_Return == "halted"

\* except Exception: log, time.sleep(60), then the next iteration.
\* Where the handler leaves the thread: at the top of `while True`.
AfterExcept == "loop"

except_sleep ==
    /\ pc = "except"
    /\ delay' = FallbackDelay
    /\ now' = Tick(now)
    /\ pc' = AfterExcept
    /\ UNCHANGED <<envVars, startVars, file, restarts, previous_hash, email_config, content,
                   current_hash, result, monitor_status, attempts, chk, boot_file>>

MonitorStep ==
    \/ start_monitor_thread("load")
    \/ monitor_website_configure
    \/ set_is_running
    \/ set_target_url
    \/ set_check_interval
    \/ check_fetch
    \/ check_raises
    \/ first_run_save
    \/ first_run_set
    \/ change_save
    \/ change_set
    \/ change_notify
    \/ update_monitor_status
    \/ count_change
    \/ sleep_interval
    \/ except_sleep

(* ----------------------- the request-serving path --------------------- *)

\* app.py api_status: what the endpoint returns, monitor_status.copy(), one
\* snapshot of the dict.
status_copy == monitor_status

\* A request to /api/status is served once the module is loaded (the web
\* server starts after start_monitor_thread); it reads and changes nothing.
api_status ==
    /\ pc # "start"
    /\ UNCHANGED vars

(* ------------------- a second start_monitor_thread -------------------- *)

\* A monitor_website thread started while the first one is alive, or after
\* it returned.  Only whether it is alive is followed: it returns for want
\* of a URL or enters `while True`, which it never leaves.  Its iterations
\* are those of the first thread, on the same file and monitor_status.
second_monitor_website ==
    /\ pc2 = "cfg"
    /\ pc2' = IF UrlMissing(env_url) THEN "halted" ELSE "loop"
    /\ UNCHANGED <<envVars, file, now, restarts, monVars, monitor_status, delay,
                   attempts, chk, boot_file, monitor_thread, starter>>

(* --------------------------- the environment -------------------------- *)

\* The process is stopped and started again: everything in memory is as at
\* module load; the hash file and the clock are what they were.
Restart ==
    /\ restarts < MaxRestarts
    /\ pc # "start"
    /\ restarts' = restarts + 1
    /\ pc' = "start"
    /\ previous_hash' = None
    /\ email_config' = FALSE
    /\ content' = NoContent
    /\ current_hash' = None
    /\ result' = FALSE
    /\ monitor_status' = InitialStatus
    /\ delay' = None
    /\ attempts' = 0
    /\ chk' = NoCheck
    /\ boot_file' = Absent
    /\ monitor_thread' = NoneStr
    /\ starter' = [c \in Callers |-> "call"]
    /\ pc2' = "none"
    /\ UNCHANGED <<envVars, file, now>>

\* The hash file is removed or damaged from outside the program (/tmp is
\* cleaned, a partial write survives a crash).
DamageRecord ==
    /\ file' \in {Absent, Corrupt}
    /\ file' # file
    /\ UNCHANGED <<envVars, startVars, now, restarts, monVars, monitor_status, delay,
                   attempts, chk, boot_file>>

Next ==
    \/ MonitorStep
    \/ api_status
    \/ Restart
    \/ DamageRecord

Spec == Init /\ [][Next]_vars

\* Every _save_hash call of the check in progress wrote the record.
SavesSucceed == \A i \in 1..Len(chk.save_ok) : chk.save_ok[i]

\* The process on a file system where every write of the record succeeds
\* and nothing else touches the hash file.
ReliableStoreNext ==
    \/ MonitorStep /\ SavesSucceed'
    \/ api_status
    \/ Restart

ReliableStoreSpec == Init /\ [][ReliableStoreNext]_vars

\* The process with a second caller of start_monitor_thread, running at any
\* time after the module started loading.
ConcurrentNext ==
    \/ Next
    \/ start_monitor_thread("call")
    \/ second_monitor_website

ConcurrentSpec == Init /\ [][ConcurrentNext]_vars

\* The scheduler runs the monitor thread whenever it can take a step: every
\* blocking call of an iteration (the fetch with its timeout, the delivery,
\* the sleeps) returns.
FairSpec == Spec /\ WF_vars(MonitorStep)

TypeOK ==
    /\ env_url \in {NoneStr, "", URL}
    /\ env_email \in BOOLEAN
    /\ env_creds \in BOOLEAN
    /\ file \in FileStates
    /\ now \in 0..MaxTime
    /\ restarts \in 0..MaxRestarts
    /\ pc \in {"start", "cfg", "halted", "set_running", "set_url", "set_interval",
               "loop", "first_save", "first_set", "chg_save", "chg_set",
               "chg_notify", "ret", "count", "sleep", "except"}
    /\ previous_hash \in Digests \cup {None}
    /\ email_config \in BOOLEAN
    /\ content \in Contents \cup {NoContent}
    /\ current_hash \in Digests \cup {None}
    /\ result \in BOOLEAN
    /\ monitor_status.changes_detected \in 0..MaxTime
    /\ monitor_status.last_check_time \in 0..MaxTime \cup {None}
    /\ delay \in {None, DefaultInterval, FallbackDelay}
    /\ attempts \in 0..MaxTime
    /\ boot_file \in FileStates
    /\ monitor_thread \in Threads \cup {NoneStr}
    /\ starter \in [Callers -> {"call", "then", "done"}]
    /\ pc2 \in {"none", "cfg", "halted", "loop"}

(* ============================== claims ================================ *)

\* The check whose record is chk has returned to the loop: chk, content and
\* current_hash are those of that check until the next one starts.
Returned == pc \in {"ret", "count", "sleep"}

\* The fetch of that check gave check_for_changes a page it can hash.
Fetched == content # NoContent /\ Len(content) > 0

\* C1 -- First observation.  A check that starts with no previous hash in
\* memory (no record was loaded) and whose fetch succeeds returns False,
\* calls _save_hash exactly once, with the hash of the fetched page (the
\* record holds it unless that write itself raised), leaves previous_hash
\* equal to it, attempts no notification, and the loop leaves
\* changes_detected as it was when the check started.
C1_FirstObservation ==
    (Returned /\ chk.prev0 = None /\ Fetched) =>
        /\ result = FALSE
        /\ chk.saves = <<sha256(content)>>
        /\ chk.save_ok[1] => chk.wrote[1] = sha256(content)
        /\ previous_hash = sha256(content)
        /\ chk.sent = 0
        /\ attempts = 0
        /\ monitor_status.changes_detected = chk.cd0

\* The first check of a process found no record, fetched a page, seeded the
\* store and the loop has gone past its counter update.
C1_Witness ==
    /\ pc = "sleep"
    /\ chk.first /\ chk.prev0 = None /\ boot_file = Absent
    /\ Fetched
    /\ file = sha256(content)
    /\ previous_hash = sha256(content)
    /\ monitor_status.changes_detected = 0

\* C2 -- Change.  A check that starts with previous hash F and fetches a
\* page whose hash differs from F returns True, calls _save_hash exactly
\* once, with the new hash (the record holds it unless that write itself
\* raised), leaves previous_hash equal to it and, when email is configured,
\* has made exactly one delivery attempt.
C2_ChangeReported ==
    (Returned /\ chk.prev0 # None /\ Fetched /\ sha256(content) # chk.prev0) =>
        /\ result = TRUE
        /\ chk.saves = <<sha256(content)>>
        /\ chk.save_ok[1] => chk.wrote[1] = sha256(content)
        /\ previous_hash = sha256(content)
        /\ email_config => chk.sent = 1

\* A change was found with email configured: saved, remembered, one attempt.
C2_Witness ==
    /\ pc = "ret"
    /\ chk.prev0 \in Digests /\ Fetched /\ sha256(content) # chk.prev0
    /\ email_config /\ chk.sent = 1
    /\ file = sha256(content)
    /\ result = TRUE

\* C3 -- No change.  A check that starts with previous hash F and fetches a
\* page whose hash is F returns False, has called _save_hash not at all,
\* leaves previous_hash as it was and has attempted no delivery.
C3_NoChangeNoMutation ==
    (Returned /\ chk.prev0 # None /\ Fetched /\ sha256(content) = chk.prev0) =>
        /\ result = FALSE
        /\ chk.saves = <<>>
        /\ chk.wrote = <<>>
        /\ previous_hash = chk.prev0
        /\ chk.sent = 0
        /\ monitor_status.changes_detected = chk.cd0

\* The same page was fetched again, with email configured and after an
\* earlier change had been notified.
C3_Witness ==
    /\ pc = "sleep"
    /\ chk.prev0 \in Digests /\ Fetched /\ sha256(content) = chk.prev0
    /\ email_config /\ attempts = 1
    /\ file = chk.prev0

\* C4 -- Failed fetch.  A check whose fetch fails (None, which
\* check_for_changes treats like an empty page) returns False, has called
\* _save_hash not at all, leaves previous_hash as it was (None stays None),
\* has attempted no delivery, and the loop leaves changes_detected as it
\* was; so for every number of failed fetches in a row.
C4_FetchFailureNoMutation ==
    (Returned /\ ~Fetched) =>
        /\ result = FALSE
        /\ chk.saves = <<>>
        /\ chk.wrote = <<>>
        /\ previous_hash = chk.prev0
        /\ chk.sent = 0
        /\ monitor_status.changes_detected = chk.cd0

\* Three fetches in a row failed in a process that never got a page: the
\* monitor is still uninitialized and nothing was counted or written.
C4_Witness ==
    /\ pc = "sleep"
    /\ content = NoContent /\ chk.fails = 3
    /\ restarts = 0 /\ previous_hash = None /\ file = Absent
    /\ monitor_status.changes_detected = 0

\* The hash a record holds, None when there is no readable record.
RecordHash(f) == IF f \in Digests THEN f ELSE None

\* The monitor thread is past the construction of the monitor.
Constructed == pc \notin {"start", "cfg", "halted"}

\* C5 -- Restart.  In a restarted process, until its first check starts,
\* previous_hash is the hash the record held when the process came up; and
\* when the record held a hash F (an earlier check saved it), the first
\* check returns False without any _save_hash call on a page whose hash is
\* F, and returns True on a page whose hash differs from F.
C5_RestartResumes ==
    /\ (restarts >= 1 /\ Constructed /\ chk.t0 = None) =>
           previous_hash = RecordHash(boot_file)
    /\ (restarts >= 1 /\ Returned /\ chk.first /\ boot_file \in Digests /\ Fetched) =>
           /\ chk.prev0 = boot_file
           /\ IF sha256(content) = boot_file
              THEN result = FALSE /\ chk.saves = <<>> /\ previous_hash = boot_file
              ELSE result = TRUE /\ previous_hash = sha256(content)

\* After a restart the record held the hash of the page, the first check
\* fetched the same page and reported no change; the record is untouched.
C5_Witness ==
    /\ restarts = 1 /\ pc = "sleep" /\ chk.first
    /\ boot_file \in Digests /\ Fetched /\ sha256(content) = boot_file
    /\ result = FALSE /\ file = boot_file /\ chk.saves = <<>>

\* The check whose record is chk started with a previous hash and fetched
\* a page with another hash: its outcome is Changed.
Changed ==
    /\ ~chk.raised
    /\ chk.prev0 # None /\ Fetched /\ sha256(content) # chk.prev0

\* changes_detected, given where the loop is: nothing before the first
\* check, the value at the start of the check up to the counter update, and
\* one more after the update of a Changed check.
C6_Count ==
    /\ chk.t0 = None => monitor_status.changes_detected = 0
    /\ (chk.t0 # None /\ pc \notin {"sleep", "loop"}) =>
           monitor_status.changes_detected = chk.cd0
    /\ (chk.t0 # None /\ pc \in {"sleep", "loop"}) =>
           monitor_status.changes_detected = chk.cd0 + (IF Changed THEN 1 ELSE 0)

\* C6 -- changes_detected never decreases while the process runs, and each
\* iteration of the loop adds one to it if the check's outcome is Changed
\* and nothing otherwise (first run, no change, failed fetch).
C6_CounterTracksChanges ==
    /\ []C6_Count
    /\ [][restarts' = restarts =>
            monitor_status'.changes_detected >= monitor_status.changes_detected]_vars

\* Pages A, A, B from an empty store: one change counted, the record holds
\* the hash of B.
C6_Witness ==
    /\ restarts = 0 /\ now = 2 /\ pc = "sleep"
    /\ chk.c00 = <<1>> /\ chk.c0 = <<1>> /\ content = <<1, 1>>
    /\ chk.prev0 = sha256(<<1>>)
    /\ monitor_status.changes_detected = 1
    /\ file = sha256(<<1, 1>>)

\* C7 -- After every check the loop attempted, and before the next
\* iteration starts, last_check_time is the time of that iteration; also
\* for a check that ended in a fetch failure or in an unexpected error.
C7_LastCheckTimeAfterEveryAttempt ==
    (pc = "loop" /\ chk.t0 # None) => monitor_status.last_check_time = chk.t0

\* The monitor thread is in its `while True` loop.
Iterating ==
    pc \in {"loop", "first_save", "first_set", "chg_save", "chg_set",
            "chg_notify", "ret", "count", "sleep", "except"}

C9_NoUrlHalts ==
    (env_url = NoneStr \/ env_url = "") =>
        /\ pc \in {"start", "cfg", "halted"}
        /\ chk = NoCheck
        /\ file \notin Digests
        /\ attempts = 0
        /\ monitor_status = InitialStatus
        /\ pc # "start" =>
               /\ ENABLED api_status
               /\ status_copy.is_running = FALSE
               /\ status_copy.last_check_time = None
               /\ status_copy.changes_detected = 0

\* The thread has returned for want of a URL (here an empty WEBSITE_URL)
\* and a status read is answered with the initial status.
C9_Witness ==
    /\ env_url = "" /\ pc = "halted"
    /\ ENABLED api_status
    /\ status_copy = InitialStatus

\* C10 -- In a Changed check the save and the assignment of previous_hash
\* come before the delivery; a delivery that fails is the only attempt,
\* does not reach the loop's exception handler, is followed by no further
\* _save_hash call and no change of previous_hash, and the check still
\* returns True and is counted.
C10_NotifyDecoupled ==
    /\ pc = "chg_notify" =>
           /\ chk.saves = <<current_hash>>
           /\ previous_hash = current_hash
           /\ chk.sent = 0
    /\ (chk.sent > 0 /\ ~chk.delivered /\ pc # "loop") =>
           /\ Returned
           /\ chk.sent = 1
           /\ chk.saves = <<sha256(content)>>
           /\ chk.save_ok[1] => chk.wrote[1] = sha256(content)
           /\ previous_hash = sha256(content)
           /\ result = TRUE
           /\ pc = "sleep" => monitor_status.changes_detected = chk.cd0 + 1

\* A delivery failed; the new hash is in the record and in memory and the
\* change was counted.
C10_Witness ==
    /\ pc = "sleep" /\ chk.sent = 1 /\ ~chk.delivered
    /\ file = sha256(content) /\ previous_hash = sha256(content)
    /\ monitor_status.changes_detected = chk.cd0 + 1

\* C11 -- A status read never sees a torn snapshot.  For a read by
\* api_status (one copy of the dict): it never shows is_running = true with
\* target_url or check_interval still None, and never the last_check_time
\* of a Changed check with the changes_detected from before that check.
C11_NoTornSnapshot ==
    ENABLED api_status =>
        /\ status_copy.is_running =>
               /\ status_copy.target_url # NoneStr
               /\ status_copy.check_interval # None
        /\ (Changed /\ status_copy.last_check_time = chk.t0) =>
               status_copy.changes_detected = chk.cd0 + 1

\* C12 -- Without email configuration a check that finds a change still
\* returns True, calls _save_hash once with the new hash (the record holds
\* it unless that write itself raised), sets previous_hash, is counted by
\* the loop, and no delivery is attempted, in this check or before.
C12_DetectsWithoutNotification ==
    (Returned /\ Changed /\ ~email_config) =>
        /\ result = TRUE
        /\ chk.saves = <<sha256(content)>>
        /\ chk.save_ok[1] => chk.wrote[1] = sha256(content)
        /\ previous_hash = sha256(content)
        /\ chk.sent = 0
        /\ attempts = 0
        /\ pc = "sleep" => monitor_status.changes_detected = chk.cd0 + 1

\* No email in the environment: a change was saved and counted, nothing
\* was sent.
C12_Witness ==
    /\ pc = "sleep" /\ ~env_email /\ Changed
    /\ file = sha256(content) /\ previous_hash = sha256(content)
    /\ monitor_status.changes_detected = chk.cd0 + 1
    /\ attempts = 0

\* What C13 says of the process in which a save failed: after a check
\* whose _save_hash call did not write the record, previous_hash is the
\* hash of the fetched page and the outcome, the notification and the
\* counter are those of a check whose save succeeded; and every check
\* compares with the previous_hash in memory, whatever the record holds.
C13_InMemory ==
    /\ (Returned /\ Fetched /\ chk.save_ok = <<FALSE>>) =>
           /\ previous_hash = sha256(content)
           /\ result = (chk.prev0 # None)
           /\ (chk.prev0 # None /\ email_config) => chk.sent = 1
           /\ pc = "sleep" =>
                  monitor_status.changes_detected =
                      chk.cd0 + (IF chk.prev0 # None THEN 1 ELSE 0)
    /\ (Returned /\ Fetched /\ chk.prev0 # None) =>
           result = (sha256(content) # chk.prev0)

\* What C13 says of the record: a _save_hash call that fails leaves the
\* record written by the last successful save in place (this is what a
\* restart then loads).
C13_RecordKept ==
    (/\ Len(chk'.save_ok) = Len(chk.save_ok) + 1
     /\ ~chk'.save_ok[Len(chk'.save_ok)]
     /\ file \in Digests) => file' = file

\* C13 -- A failing save is not fatal: detection goes on in memory with
\* the same outcomes, and a restart falls back to the record last written
\* successfully.
C13_SaveFailureNonFatal ==
    /\ []C13_InMemory
    /\ [][C13_RecordKept]_vars

\* C14 -- A missing or unreadable record is loaded as no previous hash,
\* without raising (the monitor is constructed); the first check of that
\* process that fetches a page then seeds the store: it returns False, calls
\* _save_hash once with the page's hash, attempts no delivery and is not
\* counted, whatever the page is.
C14_UnreadableRecordIsAbsent ==
    /\ (Constructed /\ boot_file \notin Digests /\ chk.t0 = None) =>
           previous_hash = None
    /\ (Constructed /\ boot_file \notin Digests /\ chk.prev0 = None
           /\ Returned /\ Fetched) =>
           /\ result = FALSE
           /\ chk.saves = <<sha256(content)>>
           /\ chk.save_ok[1] => chk.wrote[1] = sha256(content)
           /\ previous_hash = sha256(content)
           /\ chk.sent = 0
           /\ monitor_status.changes_detected = chk.cd0

\* The restarted process found a corrupt record, email is configured; its
\* first check fetched a page, wrote the record anew and reported nothing.
C14_Witness ==
    /\ restarts = 1 /\ boot_file = Corrupt /\ chk.first
    /\ pc = "sleep" /\ Fetched /\ result = FALSE
    /\ email_config /\ attempts = 0
    /\ file = sha256(content)
    /\ monitor_status.changes_detected = 0

\* The fetch of that check returned the text of a response, empty or not.
Responded == content # NoContent

\* C15 -- The record a check writes holds the hash of the content that
\* check fetched; and after every check whose fetch returned a content C,
\* the empty one included, the comparison was made with the hash of C
\* (the check returns True exactly if it differs from a previous hash) and
\* previous_hash and any save are the hash of C.
C15_DigestOfFetchedContent ==
    /\ \A i \in 1..Len(chk.wrote) :
           chk.save_ok[i] => (Responded /\ chk.wrote[i] = sha256(content))
    /\ (Returned /\ Responded) =>
           /\ result = (chk.prev0 # None /\ sha256(content) # chk.prev0)
           /\ previous_hash = sha256(content)
           /\ \A i \in 1..Len(chk.saves) : chk.saves[i] = sha256(content)

\* C16 -- At most one monitor_website thread is alive, however the calls
\* of start_monitor_thread are interleaved.
C16_SingleLoop ==
    Cardinality({t \in Threads : is_alive(t)}) <= 1

\* C17 -- A notification whose configuration came from an environment
\* without EMAIL_USERNAME and EMAIL_PASSWORD is delivered without a login
\* step: a delivered message went through server.login only when the
\* credentials are configured.
C17_LoginOnlyWithCredentials ==
    (chk.sent > 0 /\ chk.delivered /\ chk.login) => env_creds

\* After a check that fetched a page, previous_hash is the hash of it.
C18_Remembered ==
    (Returned /\ Fetched) => previous_hash = sha256(content)

\* C18 -- While the process runs, previous_hash, once set, is never None
\* again; and after every check whose fetch succeeded it is the hash of
\* the page that check fetched.
C18_PreviousHashKept ==
    /\ []C18_Remembered
    /\ [][(restarts' = restarts /\ previous_hash # None) =>
            previous_hash' # None]_vars

\* Pages A, B, A: the change and its reversal were each reported once, and
\* previous_hash is the hash of A again.
C18_Witness ==
    /\ restarts = 0 /\ pc = "sleep"
    /\ chk.c00 = <<1>> /\ chk.c0 = <<1, 1>> /\ content = <<1>>
    /\ previous_hash = sha256(<<1>>)
    /\ monitor_status.changes_detected = 2

\* The monitor exists and is not inside check_for_changes.
BetweenChecks ==
    pc \in {"set_running", "set_url", "set_interval", "loop", "ret", "count",
            "sleep", "except"}

\* C19 -- When every save succeeds and nothing else touches the hash file,
\* between checks the record holds previous_hash whenever previous_hash is
\* set.
C19_StoreMatchesMemory ==
    (BetweenChecks /\ previous_hash # None) => file = previous_hash

\* After a restart and a change the record and previous_hash hold the hash
\* of the new page.
C19_Witness ==
    /\ restarts = 1 /\ pc = "sleep" /\ Changed
    /\ previous_hash = sha256(content) /\ file = previous_hash

\* C20 -- With email configured in the environment, the delivery attempts
\* of the process are as many as changes_detected, or one more while a
\* Changed check has made its attempt and the loop has not counted it yet;
\* and a check that is not Changed (first run, no change, failed fetch)
\* makes no attempt.
C20_AttemptsTrackCounter ==
    /\ env_email =>
           \/ attempts = monitor_status.changes_detected
           \/ /\ attempts = monitor_status.changes_detected + 1
              /\ pc \in {"ret", "count"}
              /\ Changed
    /\ (Returned /\ ~Changed) => chk.sent = 0

\* Two changes were found with email configured: the second attempt is
\* made and not counted yet.
C20_Witness ==
    /\ env_email /\ pc = "count" /\ Changed
    /\ attempts = 2 /\ monitor_status.changes_detected = 1

====
